---- MODULE Spec2Model ----
(***************************************************************************)
(* Model of src/main.py: the job-ad / CV ingestion workers, the matching   *)
(* pass, the Tk "after" queue that hands results back to the main thread,   *)
(* and the button states that gate the user actions.                        *)
(*                                                                          *)
(* Text is modelled as a sequence of tokens: a token is either one          *)
(* character (" ", "-", "%", a digit) or a fixed literal of the source      *)
(* ("P" stands for the literal PERCENTAGE: and "J" for JUSTIFICATION:).     *)
(* The empty string is <<>>; Python truthiness of a string is # <<>>.       *)
(***************************************************************************)
EXTENDS Integers, Sequences, FiniteSets, TLC

\* ------------------------------------------------------------------ bounds
MaxUploads == 3        \* upload worker threads ever started (job ad + CV)
MaxPasses == 2         \* matching worker threads ever started
MaxBatch == 2          \* files selected in one CV dialog
MaxTextLen == 5        \* tokens of a scoring reply in the parser specification
MaxPages == 2          \* page images of a PDF in the ingestion specification
MaxIngests == 1        \* uploads of a behaviour of the ingestion specification

\* ------------------------------------------------------------------ text
Whitespace == {" ", "\n"}
Digits == {"0", "1", "2", "3", "4", "5", "6", "7", "8", "9"}

DigitVal(d) ==
    CASE d = "0" -> 0 [] d = "1" -> 1 [] d = "2" -> 2 [] d = "3" -> 3
      [] d = "4" -> 4 [] d = "5" -> 5 [] d = "6" -> 6 [] d = "7" -> 7
      [] d = "8" -> 8 [] d = "9" -> 9

\* str.strip(): drop leading and trailing whitespace
RECURSIVE LStrip(_)
LStrip(s) == IF s # <<>> /\ Head(s) \in Whitespace THEN LStrip(Tail(s)) ELSE s

RECURSIVE RStrip(_)
RStrip(s) ==
    IF s # <<>> /\ s[Len(s)] \in Whitespace
    THEN RStrip(SubSeq(s, 1, Len(s) - 1))
    ELSE s

Strip(s) == RStrip(LStrip(s))

\* int(digits): decimal value of a digit sequence
RECURSIVE IntOf(_)
IntOf(ds) ==
    IF ds = <<>> THEN 0
    ELSE 10 * IntOf(SubSeq(ds, 1, Len(ds) - 1)) + DigitVal(ds[Len(ds)])

\* first index >= i of text whose token is not in set S (Len+1 when none)
RECURSIVE SkipWhile(_, _, _)
SkipWhile(text, i, S) ==
    IF i <= Len(text) /\ text[i] \in S THEN SkipWhile(text, i + 1, S) ELSE i

Min(a, b) == IF a <= b THEN a ELSE b
Max(a, b) == IF a >= b THEN a ELSE b

\* ------------------------------------------------------------------ service replies
\* What one generate_content call does: it raises (kind "raise"), returns a falsy
\* response (kind "none"), or returns a response whose .text is `text`.
Outcome(kind, text) == [kind |-> kind, text |-> text]
ErrorText == "E"       \* str(e) of whatever the service raised

\* ------------------------------------------------------------------ rate_cv_suitability
\* re.search(r"PERCENTAGE:\s*(\d+)%", text) tried at position i only
ScoreMatchAt(text, i) ==
    LET j == SkipWhile(text, i + 1, Whitespace)
        k == SkipWhile(text, j, Digits)
    IN  /\ text[i] = "P"
        /\ k > j
        /\ k <= Len(text)
        /\ text[k] = "%"

\* re.search scans left to right: the first position that matches, 0 when none
RECURSIVE ScoreSearch(_, _)
ScoreSearch(text, i) ==
    IF i > Len(text) THEN 0
    ELSE IF ScoreMatchAt(text, i) THEN i
    ELSE ScoreSearch(text, i + 1)

\* score_match.group(1)
ScoreGroup(text, i) ==
    LET j == SkipWhile(text, i + 1, Whitespace)
        k == SkipWhile(text, j, Digits)
    IN  SubSeq(text, j, k - 1)

\* mutant of ClampScore: the upper clamp is forgotten
ClampScoreNoUpper(n) == Max(0, n)

\* line 149
ClampScore(n) == Max(0, Min(100, n))

ParseScore(text) ==
    LET i == ScoreSearch(text, 1)
    IN  IF i = 0 THEN 0 ELSE ClampScore(IntOf(ScoreGroup(text, i)))

\* re.search(r"JUSTIFICATION:\s*(.*)", text, re.DOTALL): first "J", 0 when none
RECURSIVE JustSearch(_, _)
JustSearch(text, i) ==
    IF i > Len(text) THEN 0
    ELSE IF text[i] = "J" THEN i
    ELSE JustSearch(text, i + 1)

NAJustification == <<"N/A - No justification provided.">>

ParseJustification(text) ==
    LET i == JustSearch(text, 1)
    IN  IF i = 0 THEN NAJustification
        ELSE Strip(SubSeq(text, SkipWhile(text, i + 1, Whitespace), Len(text)))

\* rate_cv_suitability(job_requirements_parsed, cv_info_parsed) given what the
\* service call does; the two profiles only go into the prompt
rate_cv_suitability(job_requirements_parsed, cv_info_parsed, out) ==
    IF out.kind = "raise"
    THEN [score |-> 0, justification |-> <<"Error rating CV: ", ErrorText>>]
    ELSE LET text == IF out.kind = "none" THEN <<>> ELSE out.text
         IN  [score |-> ParseScore(text), justification |-> ParseJustification(text)]

\* ------------------------------------------------------------------ profile extraction
parse_job_advertisement(job_ad_text, out) ==
    CASE out.kind = "raise" -> <<"Error parsing job advertisement: ", ErrorText>>
      [] out.kind = "none" -> <<"Could not parse job advertisement.">>
      [] OTHER -> out.text

parse_cv_skills_and_experience(cv_text, out) ==
    CASE out.kind = "raise" -> <<"Error parsing CV: ", ErrorText>>
      [] out.kind = "none" -> <<"Could not parse CV.">>
      [] OTHER -> out.text

\* ------------------------------------------------------------------ inputs
JobFiles == {"job.pdf"}
CvFileNames == <<"a.pdf", "b.pdf", "c.pdf", "d.pdf">>

\* what file_path.split('/')[-1] names: one dialog selects files of one directory,
\* so a batch is a non-empty sequence of distinct file names. The batches drawn
\* are the first n names.
Batches == {SubSeq(CvFileNames, 1, n) : n \in 1..MaxBatch}

\* what _process_document_to_text_list can return for a document: nothing (the
\* PDF did not convert, the image could not be read, no page had text), pages
\* whose text is blank, or text
DocTexts == {<<>>, <<"\n", "\n">>, <<"text">>}

JobParseOutcomes ==
    {Outcome("text", <<"Requires: Python">>), Outcome("raise", <<>>)}

CvParseOutcomes ==
    {Outcome("text", <<"Skills: Python">>), Outcome("text", <<>>), Outcome("raise", <<>>)}

\* what the calls made for one CV do: no profile call is made for a document
\* without text (line 390)
CvOutcomes ==
    {<<doc, out>> \in DocTexts \X CvParseOutcomes :
        Strip(doc) = <<>> => out = Outcome("raise", <<>>)}

ScoringOutcomes ==
    {Outcome("text", <<"P", " ", "9", "5", "%", "\n", "J", " ", "strong">>),
     Outcome("raise", <<>>)}

\* ------------------------------------------------------------------ values
NoRating == [filename |-> "", score |-> -1, justification |-> <<>>]  \* None
Rating(fn, sc, ju) == [filename |-> fn, score |-> sc, justification |-> ju]
SkipJustification == <<"Skipped due to failed text/profile extraction.">>
NoTextParsed == <<"No text extracted", ".">>
NoTextRaw == <<"Could not extract text.">>

\* "No text extracted" in s
HasNoTextMarker(s) == \E i \in 1..Len(s) : s[i] = "No text extracted"

\* a dict in insertion order: a sequence of entries with distinct keys
DictSet(d, fn, entry) ==
    IF \E i \in 1..Len(d) : d[i].filename = fn
    THEN [i \in 1..Len(d) |-> IF d[i].filename = fn THEN entry ELSE d[i]]
    ELSE Append(d, entry)

\* list.sort(key=lambda x: x['score'], reverse=True): stable, descending
RECURSIVE InsertDesc(_, _)
InsertDesc(sorted, r) ==
    IF sorted = <<>> THEN <<r>>
    ELSE IF sorted[Len(sorted)].score >= r.score THEN Append(sorted, r)
    ELSE Append(InsertDesc(SubSeq(sorted, 1, Len(sorted) - 1), r), sorted[Len(sorted)])

RECURSIVE SortDesc(_)
SortDesc(l) ==
    IF l = <<>> THEN <<>>
    ELSE InsertDesc(SortDesc(SubSeq(l, 1, Len(l) - 1)), l[Len(l)])

\* ------------------------------------------------------------------ state
VARIABLES
    job_ad_text_raw,        \* self.job_ad_text_raw
    job_ad_parsed_info,     \* self.job_ad_parsed_info
    cv_data,                \* self.cv_data
    cv_ratings,             \* self.cv_ratings: which list object it is bound to
    lists,                  \* the list objects ever bound to self.cv_ratings
    match_cvs_button,       \* widget states
    upload_job_ad_button,
    upload_cvs_button,
    most_suitable_cv_text,  \* results area
    other_cvs_listbox,
    after_queue,            \* callbacks posted with root.after(0, ...), oldest first
    uploads,                \* upload worker threads, in start order
    passes,                 \* matching worker threads, in start order
    uploads_started,        \* threads ever started
    passes_started,
    reply,                  \* parser specification: the service outcome
    rated,                  \* parser specification: what rate_cv_suitability returned
    ingest,                 \* ingestion specification: the locals of the upload worker
    service,                \* matching specification: the reply to each candidate
    delivered               \* matching specification: the results handed over so far

vars ==
    <<job_ad_text_raw, job_ad_parsed_info, cv_data, cv_ratings, lists,
      match_cvs_button, upload_job_ad_button, upload_cvs_button,
      most_suitable_cv_text, other_cvs_listbox, after_queue,
      uploads, passes, uploads_started, passes_started, reply, rated,
      ingest, service, delivered>>

session == <<job_ad_text_raw, job_ad_parsed_info, cv_data>>
buttons == <<match_cvs_button, upload_job_ad_button, upload_cvs_button>>
results_area == <<most_suitable_cv_text, other_cvs_listbox>>
parser == <<reply, rated>>
aux == <<ingest, service, delivered>>
started == <<uploads_started, passes_started>>

NotRated == [score |-> -1, justification |-> <<>>]

\* no upload worker is running: its locals do not exist
IdleIngest ==
    [stage |-> "idle", file |-> 0, all_text_pages |-> <<>>, pages_left |-> 0,
     full_text |-> <<>>, new_cv_data |-> <<>>, calls |-> <<>>]
EmptyList == [items |-> <<>>, sorting |-> FALSE]
Placeholder == [kind |-> "placeholder", rating |-> NoRating]

\* The list objects still referenced: by self.cv_ratings, by a posted results
\* callback, or by a list.sort in progress. The others are freed.
Referenced(l, bound, queue, workers) ==
    \/ l = bound
    \/ \E k \in 1..Len(queue) : queue[k].cb = "results" /\ queue[k].list = l
    \/ \E k \in 1..Len(workers) : workers[k].pc = "sorting" /\ workers[k].sorted_list = l

Collect(heap, bound, queue, workers) ==
    [l \in DOMAIN heap |->
        IF Referenced(l, bound, queue, workers) THEN heap[l] ELSE EmptyList]

Callback(cb, text, parsed, data, total, top, list) ==
    [cb |-> cb, text |-> text, parsed |-> parsed, data |-> data, total |-> total,
     top |-> top, list |-> list]

Init ==
    /\ job_ad_text_raw = <<>>
    /\ job_ad_parsed_info = <<>>
    /\ cv_data = <<>>
    /\ cv_ratings = 0
    /\ lists = [l \in 0..MaxPasses |-> EmptyList]
    /\ match_cvs_button = "disabled"
    /\ upload_job_ad_button = "normal"
    /\ upload_cvs_button = "normal"
    /\ most_suitable_cv_text = [kind |-> "empty", rating |-> NoRating]
    /\ other_cvs_listbox = <<>>
    /\ after_queue = <<>>
    /\ uploads = <<>>
    /\ passes = <<>>
    /\ uploads_started = 0
    /\ passes_started = 0
    /\ reply = Outcome("none", <<>>)
    /\ rated = NotRated
    /\ ingest = IdleIngest
    /\ service = <<>>
    /\ delivered = <<>>

\* ------------------------------------------------------------------ main thread
\* Status-label updates and dialogs change no variable of the model; the posts
\* that only do those (lines 330-331, 384-386, 391-392, 396, 444-446, 454-456)
\* are left out of after_queue.

\* _check_and_enable_match_button: the state it gives the match button
CheckAndEnable(parsed_info, data) ==
    IF parsed_info # <<>> /\ data # <<>> THEN "normal" ELSE "disabled"

\* _reset_results_area
ResetResultsArea ==
    /\ most_suitable_cv_text' = Placeholder
    /\ other_cvs_listbox' = <<>>

UploadThread(role, files) ==
    [role |-> role, pc |-> "process", files |-> files, full_text |-> <<>>]

\* a worker that has returned is gone, with its locals
RemoveAt(threads, t) ==
    [k \in 1..(Len(threads) - 1) |-> IF k < t THEN threads[k] ELSE threads[k + 1]]

\* mutant of UploadJobAdFile: _run_job_ad_processing is called by the handler
\* itself instead of being made the target of a thread
UploadJobAdFileInline(file_path) ==
    /\ upload_job_ad_button = "normal"
    /\ \/ /\ file_path # ""
          /\ uploads_started < MaxUploads
          /\ job_ad_parsed_info' = <<>>
          /\ \E full_text \in DocTexts, out \in JobParseOutcomes :
                IF Strip(full_text) = <<>>
                THEN /\ job_ad_text_raw' = <<>>
                     /\ after_queue' = Append(after_queue,
                            Callback("job_error", <<>>, <<>>, <<>>, 0, NoRating, -1))
                ELSE /\ job_ad_text_raw' = full_text
                     /\ after_queue' = Append(after_queue,
                            Callback("job_ok", full_text,
                                     parse_job_advertisement(full_text, out),
                                     <<>>, 0, NoRating, -1))
          /\ uploads_started' = uploads_started + 1
          /\ UNCHANGED <<cv_data, cv_ratings, lists, buttons, results_area,
                         uploads, passes, passes_started, parser, aux>>
       \/ /\ file_path = ""
          /\ job_ad_text_raw' = <<>>
          /\ job_ad_parsed_info' = <<>>
          /\ ResetResultsArea
          /\ UNCHANGED <<cv_data, cv_ratings, lists, buttons, after_queue,
                         uploads, passes, started, parser, aux>>

\* _upload_job_ad_file: the button is pressed and the dialog returns file_path
\* ("" when it is dismissed)
UploadJobAdFile(file_path) ==
    /\ upload_job_ad_button = "normal"
    /\ \/ /\ file_path # ""
          /\ uploads_started < MaxUploads
          /\ job_ad_text_raw' = <<>>
          /\ job_ad_parsed_info' = <<>>
          /\ uploads' = Append(uploads, UploadThread("job", <<file_path>>))
          /\ uploads_started' = uploads_started + 1
          /\ UNCHANGED <<cv_data, cv_ratings, lists, buttons, results_area,
                         after_queue, passes, passes_started, parser, aux>>
       \/ /\ file_path = ""
          /\ job_ad_text_raw' = <<>>
          /\ job_ad_parsed_info' = <<>>
          /\ ResetResultsArea
          /\ UNCHANGED <<cv_data, cv_ratings, lists, buttons, after_queue,
                         uploads, passes, started, parser, aux>>

\* _upload_cv_files: the dialog returns file_paths (<<>> when it is dismissed)
UploadCvFiles(file_paths) ==
    /\ upload_cvs_button = "normal"
    /\ \/ /\ file_paths # <<>>
          /\ uploads_started < MaxUploads
          /\ cv_data' = <<>>
          /\ ResetResultsArea
          /\ uploads' = Append(uploads, UploadThread("cv", file_paths))
          /\ uploads_started' = uploads_started + 1
          /\ UNCHANGED <<job_ad_text_raw, job_ad_parsed_info, cv_ratings, lists,
                         buttons, after_queue, passes, passes_started, parser, aux>>
       \/ /\ file_paths = <<>>
          /\ cv_data' = <<>>
          /\ ResetResultsArea
          /\ match_cvs_button' = CheckAndEnable(job_ad_parsed_info, <<>>)
          /\ UNCHANGED <<job_ad_text_raw, job_ad_parsed_info, cv_ratings, lists,
                         upload_job_ad_button, upload_cvs_button, after_queue,
                         uploads, passes, started, parser, aux>>

\* The locals of _run_matching_and_rating. `todo` is what the iteration of line
\* 442 has still to yield and `keys` the file names of the dict it goes over; a
\* local no later line reads holds its initial value.
MatchThread(id) ==
    [id |-> id, pc |-> "init", job_ad_parsed |-> <<>>, todo |-> <<>>, keys |-> <<>>,
     max_score |-> -1, most_suitable_cv_info |-> NoRating,
     sorted_list |-> -1, saved |-> EmptyList]

\* _start_matching_thread: the match button is pressed
StartMatchingThread ==
    /\ match_cvs_button = "normal"
    /\ passes_started < MaxPasses
    /\ IF job_ad_parsed_info = <<>> \/ cv_data = <<>>
       THEN UNCHANGED vars          \* a warning dialog, then return
       ELSE /\ match_cvs_button' = "disabled"
            /\ upload_job_ad_button' = "disabled"
            /\ upload_cvs_button' = "disabled"
            /\ ResetResultsArea
            /\ passes' = Append(passes, MatchThread(passes_started + 1))
            /\ passes_started' = passes_started + 1
            /\ UNCHANGED <<session, cv_ratings, lists, after_queue, uploads,
                           uploads_started, parser, aux>>

\* _update_job_ad_gui_after_processing(full_text, parsed_info)
UpdateJobAdGuiAfterProcessing(cb) ==
    /\ job_ad_parsed_info' = cb.parsed
    /\ match_cvs_button' = CheckAndEnable(cb.parsed, cv_data)
    /\ UNCHANGED <<job_ad_text_raw, cv_data, upload_job_ad_button,
                   upload_cvs_button, results_area>>

\* _update_job_ad_gui_error(message)
UpdateJobAdGuiError(cb) ==
    /\ ResetResultsArea
    /\ match_cvs_button' = CheckAndEnable(job_ad_parsed_info, cv_data)
    /\ UNCHANGED <<session, upload_job_ad_button, upload_cvs_button>>

\* mutant of UpdateCvGuiAfterProcessing: the batch is merged into the mapping
\* (self.cv_data.update(new_cv_data))
UpdateCvGuiMerging(cb) ==
    LET merged[n \in 0..Len(cb.data)] ==
            IF n = 0 THEN cv_data
            ELSE DictSet(merged[n - 1], cb.data[n].filename, cb.data[n])
    IN  /\ cv_data' = merged[Len(cb.data)]
        /\ match_cvs_button' = CheckAndEnable(job_ad_parsed_info, merged[Len(cb.data)])
        /\ UNCHANGED <<job_ad_text_raw, job_ad_parsed_info, upload_job_ad_button,
                       upload_cvs_button, results_area>>

\* _update_cv_gui_after_processing(new_cv_data, total_cvs)
UpdateCvGuiAfterProcessing(cb) ==
    /\ cv_data' = cb.data
    /\ match_cvs_button' = CheckAndEnable(job_ad_parsed_info, cb.data)
    /\ UNCHANGED <<job_ad_text_raw, job_ad_parsed_info, upload_job_ad_button,
                   upload_cvs_button, results_area>>

\* the list _update_results_gui shows under "Other CVs"
DisplayList(most_suitable_cv_info, all_cv_ratings) ==
    LET keep(c) == c # most_suitable_cv_info \/ Len(all_cv_ratings) = 1
        F[i \in 0..Len(all_cv_ratings)] ==
            IF i = 0 THEN <<>>
            ELSE IF keep(all_cv_ratings[i]) THEN Append(F[i - 1], all_cv_ratings[i])
                 ELSE F[i - 1]
    IN  F[Len(all_cv_ratings)]

\* the list object a results callback was given, as it is when the callback runs
\* (-1 is the literal [] of line 473)
ListItems(ref) == IF ref = -1 THEN <<>> ELSE lists[ref].items

\* _update_results_gui(most_suitable_cv_info, all_cv_ratings), with
\* _reset_button_states
UpdateResultsGui(cb) ==
    /\ most_suitable_cv_text' =
          IF cb.top # NoRating THEN [kind |-> "rating", rating |-> cb.top]
          ELSE [kind |-> "none found", rating |-> NoRating]
    /\ other_cvs_listbox' = DisplayList(cb.top, ListItems(cb.list))
    /\ upload_job_ad_button' = "normal"
    /\ upload_cvs_button' = "normal"
    /\ match_cvs_button' = CheckAndEnable(job_ad_parsed_info, cv_data)
    /\ UNCHANGED session

\* the Tk event loop runs the oldest posted callback
RunCallback ==
    /\ after_queue # <<>>
    /\ LET cb == Head(after_queue)
       IN  CASE cb.cb = "job_ok" -> UpdateJobAdGuiAfterProcessing(cb)
             [] cb.cb = "job_error" -> UpdateJobAdGuiError(cb)
             [] cb.cb = "cv_done" -> UpdateCvGuiAfterProcessing(cb)
             [] cb.cb = "results" -> UpdateResultsGui(cb)
    /\ after_queue' = Tail(after_queue)
    /\ lists' = Collect(lists, cv_ratings, Tail(after_queue), passes)
    /\ UNCHANGED <<cv_ratings, uploads, passes, started, parser, ingest, service>>

\* ------------------------------------------------------------------ upload workers
NoCallbackArgs(cb) == Callback(cb, <<>>, <<>>, <<>>, 0, NoRating, -1)

\* _run_job_ad_processing, lines 323-329: the document is turned into text
RunJobAdProcessing(t) ==
    /\ uploads[t].role = "job"
    /\ uploads[t].pc = "process"
    /\ \E full_text \in DocTexts :
          IF Strip(full_text) = <<>>
          THEN /\ after_queue' = Append(after_queue, NoCallbackArgs("job_error"))
               /\ uploads' = RemoveAt(uploads, t)
               /\ UNCHANGED job_ad_text_raw
          ELSE /\ job_ad_text_raw' = full_text
               /\ uploads' = [uploads EXCEPT ![t].pc = "parse",
                                             ![t].full_text = full_text]
               /\ UNCHANGED after_queue
    /\ UNCHANGED <<job_ad_parsed_info, cv_data, cv_ratings, lists, buttons,
                   results_area, passes, started, parser, aux>>

\* _run_job_ad_processing, lines 333-335: the profile call, then the hand-back
RunJobAdParsing(t) ==
    /\ uploads[t].role = "job"
    /\ uploads[t].pc = "parse"
    /\ \E out \in JobParseOutcomes :
          after_queue' = Append(after_queue,
              Callback("job_ok", uploads[t].full_text,
                       parse_job_advertisement(uploads[t].full_text, out),
                       <<>>, 0, NoRating, -1))
    /\ uploads' = RemoveAt(uploads, t)
    /\ UNCHANGED <<session, cv_ratings, lists, buttons, results_area, passes, started, parser, aux>>

\* the entry _run_cv_processing stores for one file (lines 388-397)
CvEntry(filename, full_text, out) ==
    IF Strip(full_text) # <<>>
    THEN [filename |-> filename, text_raw |-> full_text,
          parsed_info |-> parse_cv_skills_and_experience(full_text, out)]
    ELSE [filename |-> filename, text_raw |-> NoTextRaw, parsed_info |-> NoTextParsed]

\* new_cv_data after the loop of lines 382-397 has run over files[1..n], when
\* the calls made for file k do what outs[k] says
RECURSIVE NewCvData(_, _, _)
NewCvData(files, outs, n) ==
    IF n = 0 THEN <<>>
    ELSE DictSet(NewCvData(files, outs, n - 1), files[n],
                 CvEntry(files[n], outs[n][1], outs[n][2]))

\* _run_cv_processing: the loop touches nothing but its own new_cv_data, so the
\* worker is one step up to the hand-back of line 399
CvProcessed(t, outs) ==
    /\ uploads[t].role = "cv"
    /\ uploads[t].pc = "process"
    /\ after_queue' = Append(after_queue,
          Callback("cv_done", <<>>, <<>>,
                   NewCvData(uploads[t].files, outs, Len(uploads[t].files)),
                   Len(uploads[t].files), NoRating, -1))
    /\ uploads' = RemoveAt(uploads, t)
    /\ UNCHANGED <<session, cv_ratings, lists, buttons, results_area, passes, started, parser, aux>>

RunCvProcessing(t) ==
    \E outs \in [1..Len(uploads[t].files) -> CvOutcomes] : CvProcessed(t, outs)

\* ------------------------------------------------------------------ matching worker
\* mutant of RunMatchingInit: line 436 is forgotten, the ratings of the pass
\* go to the list self.cv_ratings is bound to already
RunMatchingInitKeeping(p) ==
    /\ passes[p].pc = "init"
    /\ passes' = [passes EXCEPT ![p].pc = "items",
                                ![p].job_ad_parsed = job_ad_parsed_info]
    /\ UNCHANGED <<session, cv_ratings, lists, buttons, results_area, after_queue,
                   uploads, started, parser, aux>>

\* Lines 436-440. self.cv_ratings is written by matching workers only and
\* self.job_ad_parsed_info by the main thread only, so the write of line 436 and
\* the read of line 440 commute with whatever runs between them: one step.
\* The pass binds self.cv_ratings to a new list object, lists[its id].
RunMatchingInit(p) ==
    /\ passes[p].pc = "init"
    /\ cv_ratings' = passes[p].id
    /\ lists' = Collect([lists EXCEPT ![passes[p].id] = EmptyList],
                        passes[p].id, after_queue, passes)
    /\ passes' = [passes EXCEPT ![p].pc = "items",
                                ![p].job_ad_parsed = job_ad_parsed_info]
    /\ UNCHANGED <<session, buttons, results_area, after_queue, uploads, started, parser, aux>>

\* Line 442, first evaluation: self.cv_data.items() is taken from the dict
\* self.cv_data is bound to now; a later rebinding does not reach the loop.
RunMatchingItems(p) ==
    /\ passes[p].pc = "items"
    /\ passes' = [passes EXCEPT
           ![p].pc = "loop",
           ![p].todo = cv_data,
           ![p].keys = [k \in 1..Len(cv_data) |-> cv_data[k].filename]]
    /\ UNCHANGED <<session, cv_ratings, lists, buttons, results_area, after_queue,
                   uploads, started, parser, aux>>

\* mutant of IsSkipped: the "No text extracted" test is forgotten
IsSkippedEmptyOnly(cv_info) == cv_info.parsed_info = <<>>

\* line 443: the candidate is skipped
IsSkipped(cv_info) ==
    cv_info.parsed_info = <<>> \/ HasNoTextMarker(cv_info.parsed_info)

\* self.cv_ratings.append(r): on the list self.cv_ratings is bound to now; an
\* append clears the marker a running sort left on the list
AppendRating(r) ==
    lists' = [lists EXCEPT ![cv_ratings] =
                 [items |-> Append(@.items, r), sorting |-> FALSE]]

\* Lines 443-452: one iteration for a skipped candidate
RunMatchingSkip(p) ==
    /\ passes[p].pc = "loop"
    /\ passes[p].todo # <<>>
    /\ IsSkipped(Head(passes[p].todo))
    /\ AppendRating(Rating(Head(passes[p].todo).filename, 0, SkipJustification))
    /\ passes' = [passes EXCEPT ![p].todo = Tail(@)]
    /\ UNCHANGED <<session, cv_ratings, buttons, results_area, after_queue,
                   uploads, started, parser, aux>>

\* mutant of RateCandidate: a failed scoring call ends the worker
RateCandidateAborting(p, out) ==
    /\ passes[p].pc = "loop"
    /\ passes[p].todo # <<>>
    /\ ~IsSkipped(Head(passes[p].todo))
    /\ IF out.kind = "raise"
       THEN /\ passes' = RemoveAt(passes, p)
            /\ UNCHANGED lists
       ELSE LET cv_info == Head(passes[p].todo)
                got == rate_cv_suitability(passes[p].job_ad_parsed, cv_info.parsed_info, out)
                current_cv_rating == Rating(cv_info.filename, got.score, got.justification)
            IN  /\ AppendRating(current_cv_rating)
                /\ passes' = [passes EXCEPT
                       ![p].todo = Tail(@),
                       ![p].max_score = IF got.score > @ THEN got.score ELSE @,
                       ![p].most_suitable_cv_info =
                           IF got.score > passes[p].max_score THEN current_cv_rating ELSE @]
    /\ UNCHANGED <<session, cv_ratings, buttons, results_area, after_queue,
                   uploads, started, parser, aux>>

\* Lines 454-469: one iteration for a candidate that is rated, when the
\* scoring call does what `out` says
RateCandidate(p, out) ==
    /\ passes[p].pc = "loop"
    /\ passes[p].todo # <<>>
    /\ ~IsSkipped(Head(passes[p].todo))
    /\ LET cv_info == Head(passes[p].todo)
           got == rate_cv_suitability(passes[p].job_ad_parsed, cv_info.parsed_info, out)
           current_cv_rating == Rating(cv_info.filename, got.score, got.justification)
       IN  /\ AppendRating(current_cv_rating)
           /\ passes' = [passes EXCEPT
                  ![p].todo = Tail(@),
                  ![p].max_score = IF got.score > @ THEN got.score ELSE @,
                  ![p].most_suitable_cv_info =
                      IF got.score > passes[p].max_score THEN current_cv_rating ELSE @]
    /\ UNCHANGED <<session, cv_ratings, buttons, results_area, after_queue,
                   uploads, started, parser, aux>>

RunMatchingRate(p) == \E out \in ScoringOutcomes : RateCandidate(p, out)

\* Lines 472-474: the loop is over; nothing collected and no best candidate
RunMatchingCheck(p) ==
    /\ passes[p].pc = "loop"
    /\ passes[p].todo = <<>>
    /\ IF lists[cv_ratings].items = <<>> /\ passes[p].most_suitable_cv_info = NoRating
       THEN /\ after_queue' = Append(after_queue,
                   Callback("results", <<>>, <<>>, <<>>, 0, NoRating, -1))
            /\ passes' = RemoveAt(passes, p)
       ELSE /\ passes' = [passes EXCEPT ![p].pc = "sort", ![p].job_ad_parsed = <<>>]
            /\ UNCHANGED after_queue
    /\ UNCHANGED <<session, cv_ratings, lists, buttons, results_area, uploads, started, parser, aux>>

\* Line 477, list.sort entered: CPython detaches the items from the list object,
\* which is empty (and marked) while the key function runs
RunMatchingSortBegin(p) ==
    /\ passes[p].pc = "sort"
    /\ passes' = [passes EXCEPT ![p].pc = "sorting", ![p].saved = lists[cv_ratings],
                                ![p].sorted_list = cv_ratings]
    /\ lists' = [lists EXCEPT ![cv_ratings] = [items |-> <<>>, sorting |-> TRUE]]
    /\ UNCHANGED <<session, cv_ratings, buttons, results_area, after_queue,
                   uploads, started, parser, aux>>

\* Line 477, list.sort returns: the sorted items are put back; whatever was put
\* in the list meanwhile is dropped, and the sort raises ValueError ("list
\* modified during sort"), which ends the worker before line 479
RunMatchingSortEnd(p) ==
    /\ passes[p].pc = "sorting"
    /\ LET l == passes[p].sorted_list
           after == IF lists[l].sorting
                    THEN [passes EXCEPT ![p].pc = "post", ![p].saved = EmptyList,
                                        ![p].sorted_list = -1]
                    ELSE RemoveAt(passes, p)
       IN  /\ lists' = Collect([lists EXCEPT ![l] =
                                   [items |-> SortDesc(passes[p].saved.items),
                                    sorting |-> passes[p].saved.sorting]],
                               cv_ratings, after_queue, after)
           /\ passes' = after
    /\ UNCHANGED <<session, cv_ratings, buttons, results_area, after_queue,
                   uploads, started, parser, aux>>

\* Line 479: the hand-back, with the list self.cv_ratings is bound to now
RunMatchingPost(p) ==
    /\ passes[p].pc = "post"
    /\ after_queue' = Append(after_queue,
          Callback("results", <<>>, <<>>, <<>>, 0,
                   passes[p].most_suitable_cv_info, cv_ratings))
    /\ passes' = RemoveAt(passes, p)
    /\ UNCHANGED <<session, cv_ratings, lists, buttons, results_area, uploads, started, parser, aux>>

\* ------------------------------------------------------------------ specification
Next ==
    \/ \E f \in JobFiles \cup {""} : UploadJobAdFile(f)
    \/ \E b \in Batches \cup {<<>>} : UploadCvFiles(b)
    \/ StartMatchingThread
    \/ RunCallback /\ UNCHANGED delivered
    \/ \E t \in 1..Len(uploads) : RunJobAdProcessing(t)
    \/ \E t \in 1..Len(uploads) : RunJobAdParsing(t)
    \/ \E t \in 1..Len(uploads) : RunCvProcessing(t)
    \/ \E p \in 1..Len(passes) : RunMatchingInit(p)
    \/ \E p \in 1..Len(passes) : RunMatchingItems(p)
    \/ \E p \in 1..Len(passes) : RunMatchingSkip(p)
    \/ \E p \in 1..Len(passes) : RunMatchingRate(p)
    \/ \E p \in 1..Len(passes) : RunMatchingCheck(p)
    \/ \E p \in 1..Len(passes) : RunMatchingSortBegin(p)
    \/ \E p \in 1..Len(passes) : RunMatchingSortEnd(p)
    \/ \E p \in 1..Len(passes) : RunMatchingPost(p)

Spec == Init /\ [][Next]_vars

\* ------------------------------------------------------------------ parser specification
\* rate_cv_suitability alone, on every reply of at most MaxTextLen tokens
ReplyAlphabet == {"P", " ", "-", "%", "0", "1", "3", "7"}
ReplyTexts == UNION {[1..n -> ReplyAlphabet] : n \in 0..MaxTextLen}
ParserReplies ==
    {Outcome("raise", <<>>), Outcome("none", <<>>)}
        \cup {Outcome("text", t) : t \in ReplyTexts}

InitParser ==
    /\ job_ad_text_raw = <<>>
    /\ job_ad_parsed_info = <<>>
    /\ cv_data = <<>>
    /\ cv_ratings = 0
    /\ lists = [l \in 0..MaxPasses |-> EmptyList]
    /\ match_cvs_button = "disabled"
    /\ upload_job_ad_button = "normal"
    /\ upload_cvs_button = "normal"
    /\ most_suitable_cv_text = [kind |-> "empty", rating |-> NoRating]
    /\ other_cvs_listbox = <<>>
    /\ after_queue = <<>>
    /\ uploads = <<>>
    /\ passes = <<>>
    /\ uploads_started = 0
    /\ passes_started = 0
    /\ reply \in ParserReplies
    /\ rated = NotRated
    /\ ingest = IdleIngest
    /\ service = <<>>
    /\ delivered = <<>>

RateReply ==
    /\ rated = NotRated
    /\ rated' = rate_cv_suitability(<<>>, <<>>, reply)
    /\ UNCHANGED <<session, cv_ratings, lists, buttons, results_area, after_queue,
                   uploads, passes, started, reply, aux>>

NextParser == RateReply

SpecParser == InitParser /\ [][NextParser]_vars

\* ------------------------------------------------------------------ ingestion specification
\* One upload worker, _run_job_ad_processing or _run_cv_processing with
\* _process_document_to_text_list, line by line. The worker reads nothing but
\* its arguments, so it is followed alone. `ingest` holds its locals, and in
\* `calls` the calls it has made to the rasterizer, the file system and the
\* services, oldest first.
IsPdf(file_path) == file_path \in {"job.pdf", "a.pdf", "b.pdf", "c.pdf", "d.pdf"}
IngestJobFiles == JobFiles \cup {"ad.png"}
IngestBatches ==
    {b \in UNION {[1..n -> {"a.pdf", "e.png"}] : n \in 1..MaxBatch} :
        \A i, j \in 1..Len(b) : i # j => b[i] # b[j]}

\* what the text-extraction call does for one image: its text, no candidates,
\* or an exception
PageOutcomes ==
    {Outcome("text", <<"x">>), Outcome("text", <<"y">>),
     Outcome("none", <<>>), Outcome("raise", <<>>)}

get_text_from_image_data(image_data, out) ==
    CASE out.kind = "raise" -> <<>>
      [] out.kind = "none" -> <<>>
      [] OTHER -> out.text

Separator == <<"\n", "\n">>

\* "\n\n".join(all_text_pages)
RECURSIVE JoinPages(_)
JoinPages(pages) ==
    IF pages = <<>> THEN <<>>
    ELSE IF Len(pages) = 1 THEN pages[1]
    ELSE JoinPages(SubSeq(pages, 1, Len(pages) - 1)) \o Separator \o pages[Len(pages)]

Call(op, file, page, pages, text) ==
    [op |-> op, file |-> file, page |-> page, pages |-> pages, text |-> text]

IngestWorker == Len(uploads) = 1 /\ uploads[1].pc = "process"
IngestFile == uploads[1].files[ingest.file]

\* the thread starts: new_cv_data = {} and the first file (lines 381-382), or
\* the call of line 323
IngestStart ==
    /\ IngestWorker
    /\ ingest.stage = "idle"
    /\ ingest' = [IdleIngest EXCEPT !.stage = "file", !.file = 1]
    /\ UNCHANGED <<session, cv_ratings, lists, buttons, results_area, after_queue,
                   uploads, passes, started, parser, service, delivered>>

\* lines 270-281: a PDF is converted into page images (none when the
\* conversion fails), an image file is read (the function returns "" when it
\* cannot be)
IngestRasterize ==
    /\ IngestWorker
    /\ ingest.stage = "file"
    /\ ingest.file <= Len(uploads[1].files)
    /\ IF IsPdf(IngestFile)
       THEN \E n \in 0..MaxPages :
               ingest' = [ingest EXCEPT
                   !.stage = "pages", !.pages_left = n, !.all_text_pages = <<>>,
                   !.calls = Append(@, Call("rasterize", ingest.file, 0, n, <<>>))]
       ELSE \E readable \in BOOLEAN :
               ingest' = [ingest EXCEPT
                   !.stage = IF readable THEN "pages" ELSE "text",
                   !.pages_left = IF readable THEN 1 ELSE 0,
                   !.all_text_pages = <<>>,
                   !.full_text = <<>>,
                   !.calls = Append(@, Call("read", ingest.file, 0,
                                            IF readable THEN 1 ELSE 0, <<>>))]
    /\ UNCHANGED <<session, cv_ratings, lists, buttons, results_area, after_queue,
                   uploads, passes, started, parser, service, delivered>>

\* mutant of IngestExtractPage: a page without text is not appended
IngestExtractPageDropping ==
    /\ IngestWorker
    /\ ingest.stage = "pages"
    /\ ingest.pages_left > 0
    /\ \E out \in PageOutcomes :
          LET extracted_text == get_text_from_image_data(<<>>, out)
          IN  ingest' = [ingest EXCEPT
                  !.pages_left = @ - 1,
                  !.all_text_pages = IF extracted_text = <<>> THEN @
                                     ELSE Append(@, extracted_text),
                  !.calls = Append(@, Call("text", ingest.file,
                                           Len(ingest.all_text_pages) + 1, 0,
                                           extracted_text))]
    /\ UNCHANGED <<session, cv_ratings, lists, buttons, results_area, after_queue,
                   uploads, passes, started, parser, service, delivered>>

\* lines 284-288, one iteration: the text of the next page image
IngestExtractPage ==
    /\ IngestWorker
    /\ ingest.stage = "pages"
    /\ ingest.pages_left > 0
    /\ \E out \in PageOutcomes :
          LET extracted_text == get_text_from_image_data(<<>>, out)
          IN  ingest' = [ingest EXCEPT
                  !.pages_left = @ - 1,
                  !.all_text_pages = Append(@, extracted_text),
                  !.calls = Append(@, Call("text", ingest.file,
                                           Len(ingest.all_text_pages) + 1, 0,
                                           extracted_text))]
    /\ UNCHANGED <<session, cv_ratings, lists, buttons, results_area, after_queue,
                   uploads, passes, started, parser, service, delivered>>

\* line 294: the document's text
IngestJoin ==
    /\ IngestWorker
    /\ ingest.stage = "pages"
    /\ ingest.pages_left = 0
    /\ ingest' = [ingest EXCEPT !.stage = "text",
                                !.full_text = JoinPages(ingest.all_text_pages)]
    /\ UNCHANGED <<session, cv_ratings, lists, buttons, results_area, after_queue,
                   uploads, passes, started, parser, service, delivered>>

\* the entry of lines 395-397 for a document without text
NoTextEntry(filename) ==
    [filename |-> filename, text_raw |-> NoTextRaw, parsed_info |-> NoTextParsed]

\* mutant of IngestText: the test for blank text is forgotten
IngestTextUnchecked ==
    /\ IngestWorker
    /\ ingest.stage = "text"
    /\ ingest' = [ingest EXCEPT !.stage = "profile"]
    /\ job_ad_text_raw' =
          IF uploads[1].role = "job" THEN ingest.full_text ELSE job_ad_text_raw
    /\ UNCHANGED <<job_ad_parsed_info, cv_data, cv_ratings, lists, buttons,
                   results_area, after_queue, uploads, passes, started, parser,
                   service, delivered>>

\* mutant of IngestText: a CV without text ends the loop over the batch
IngestTextAborting ==
    /\ IngestWorker
    /\ ingest.stage = "text"
    /\ IF Strip(ingest.full_text) # <<>>
       THEN /\ ingest' = [ingest EXCEPT !.stage = "profile"]
            /\ job_ad_text_raw' =
                  IF uploads[1].role = "job" THEN ingest.full_text ELSE job_ad_text_raw
            /\ UNCHANGED <<after_queue, uploads>>
       ELSE IF uploads[1].role = "job"
       THEN /\ after_queue' = Append(after_queue, NoCallbackArgs("job_error"))
            /\ uploads' = <<>>
            /\ ingest' = IdleIngest
            /\ UNCHANGED job_ad_text_raw
       ELSE /\ ingest' = [ingest EXCEPT
                   !.stage = "file", !.file = Len(uploads[1].files) + 1]
            /\ UNCHANGED <<job_ad_text_raw, after_queue, uploads>>
    /\ UNCHANGED <<job_ad_parsed_info, cv_data, cv_ratings, lists, buttons,
                   results_area, passes, started, parser, service, delivered>>

\* lines 325-329 and 390, 395-397: the text is tested. A job ad without text
\* ends in the error callback; a CV without text gets its entry and the loop
\* goes on; a document with text goes on to the profile call (the job-ad
\* worker stores the text first, line 329)
IngestText ==
    /\ IngestWorker
    /\ ingest.stage = "text"
    /\ IF Strip(ingest.full_text) # <<>>
       THEN /\ ingest' = [ingest EXCEPT !.stage = "profile"]
            /\ job_ad_text_raw' =
                  IF uploads[1].role = "job" THEN ingest.full_text ELSE job_ad_text_raw
            /\ UNCHANGED <<after_queue, uploads>>
       ELSE IF uploads[1].role = "job"
       THEN /\ after_queue' = Append(after_queue, NoCallbackArgs("job_error"))
            /\ uploads' = <<>>
            /\ ingest' = IdleIngest
            /\ UNCHANGED job_ad_text_raw
       ELSE /\ ingest' = [ingest EXCEPT
                   !.stage = "file", !.file = @ + 1,
                   !.new_cv_data = DictSet(@, IngestFile, NoTextEntry(IngestFile))]
            /\ UNCHANGED <<job_ad_text_raw, after_queue, uploads>>
    /\ UNCHANGED <<job_ad_parsed_info, cv_data, cv_ratings, lists, buttons,
                   results_area, passes, started, parser, service, delivered>>

\* lines 333-335 and 393-394: the profile call. The job-ad worker hands back
\* and ends; the CV worker stores the entry and goes on with the next file
IngestProfile ==
    /\ IngestWorker
    /\ ingest.stage = "profile"
    /\ IF uploads[1].role = "job"
       THEN /\ \E out \in JobParseOutcomes :
                  after_queue' = Append(after_queue,
                      Callback("job_ok", ingest.full_text,
                               parse_job_advertisement(ingest.full_text, out),
                               <<>>, 0, NoRating, -1))
            /\ uploads' = <<>>
            /\ ingest' = IdleIngest
       ELSE /\ \E out \in CvParseOutcomes :
                  ingest' = [ingest EXCEPT
                      !.stage = "file", !.file = @ + 1,
                      !.new_cv_data = DictSet(@, IngestFile,
                          [filename |-> IngestFile, text_raw |-> ingest.full_text,
                           parsed_info |->
                               parse_cv_skills_and_experience(ingest.full_text, out)]),
                      !.calls = Append(@, Call("profile", ingest.file, 0, 0, <<>>))]
            /\ UNCHANGED <<after_queue, uploads>>
    /\ UNCHANGED <<session, cv_ratings, lists, buttons, results_area, passes,
                   started, parser, service, delivered>>

\* line 399: the loop over the batch is over
IngestHandBack ==
    /\ IngestWorker
    /\ uploads[1].role = "cv"
    /\ ingest.stage = "file"
    /\ ingest.file > Len(uploads[1].files)
    /\ after_queue' = Append(after_queue,
          Callback("cv_done", <<>>, <<>>, ingest.new_cv_data,
                   Len(uploads[1].files), NoRating, -1))
    /\ uploads' = <<>>
    /\ ingest' = IdleIngest
    /\ UNCHANGED <<session, cv_ratings, lists, buttons, results_area, passes,
                   started, parser, service, delivered>>

NextIngest ==
    \/ \E f \in IngestJobFiles : uploads_started < MaxIngests /\ UploadJobAdFile(f)
    \/ \E b \in IngestBatches : uploads_started < MaxIngests /\ UploadCvFiles(b)
    \/ RunCallback /\ UNCHANGED delivered
    \/ IngestStart
    \/ IngestRasterize
    \/ IngestExtractPage
    \/ IngestJoin
    \/ IngestText
    \/ IngestProfile
    \/ IngestHandBack

SpecIngest == Init /\ [][NextIngest]_vars

\* ------------------------------------------------------------------ matching specification
\* Matching passes one after the other over a session that stays as it is: a
\* job ad and a CV batch have been uploaded and no upload is in flight. The
\* scoring service is deterministic: `service` gives its reply for each
\* candidate. `delivered` keeps what each results callback was given.
MatchReplies ==
    ScoringOutcomes
        \cup {Outcome("text", <<"P", " ", "8", "0", "%", "\n", "J", " ", "fair">>)}

MatchJobProfiles ==
    {parse_job_advertisement(<<"text">>, out) : out \in JobParseOutcomes}

MatchCvData ==
    UNION {{NewCvData(b, outs, Len(b)) : outs \in [1..Len(b) -> CvOutcomes]} :
              b \in Batches}

InitMatch ==
    /\ job_ad_text_raw = <<"text">>
    /\ job_ad_parsed_info \in MatchJobProfiles
    /\ cv_data \in MatchCvData
    /\ cv_ratings = 0
    /\ lists = [l \in 0..MaxPasses |-> EmptyList]
    /\ match_cvs_button = "normal"
    /\ upload_job_ad_button = "normal"
    /\ upload_cvs_button = "normal"
    /\ most_suitable_cv_text = Placeholder
    /\ other_cvs_listbox = <<>>
    /\ after_queue = <<>>
    /\ uploads = <<>>
    /\ passes = <<>>
    /\ uploads_started = 2
    /\ passes_started = 0
    /\ reply = Outcome("none", <<>>)
    /\ rated = NotRated
    /\ ingest = IdleIngest
    /\ service \in [{CvFileNames[k] : k \in 1..MaxBatch} -> MatchReplies]
    /\ delivered = <<>>

\* a candidate is rated, the service replying what it replies for this candidate
MatchRate(p) ==
    /\ passes[p].pc = "loop"
    /\ passes[p].todo # <<>>
    /\ RateCandidate(p, service[Head(passes[p].todo).filename])

\* the results callback runs; what it was given is kept
MatchCallback ==
    /\ RunCallback
    /\ delivered' = Append(delivered,
          [top |-> Head(after_queue).top,
           ranked |-> ListItems(Head(after_queue).list)])

NextMatch ==
    \/ StartMatchingThread
    \/ MatchCallback
    \/ \E p \in 1..Len(passes) : RunMatchingInit(p)
    \/ \E p \in 1..Len(passes) : RunMatchingItems(p)
    \/ \E p \in 1..Len(passes) : RunMatchingSkip(p)
    \/ \E p \in 1..Len(passes) : MatchRate(p)
    \/ \E p \in 1..Len(passes) : RunMatchingCheck(p)
    \/ \E p \in 1..Len(passes) : RunMatchingSortBegin(p)
    \/ \E p \in 1..Len(passes) : RunMatchingSortEnd(p)
    \/ \E p \in 1..Len(passes) : RunMatchingPost(p)

SpecMatch == InitMatch /\ [][NextMatch]_vars


\* ================================================================== claims

\* ------------------------------------------------------------------ helpers
SortedDesc(l) ==
    \A i, j \in 1..Len(l) : i < j => l[i].score >= l[j].score

InKeys(keys, fn) == \E k \in 1..Len(keys) : keys[k] = fn
KeyPos(keys, fn) == CHOOSE k \in 1..Len(keys) : keys[k] = fn

\* ratings of equal score stand in the order of their candidates in keys
TiesInKeyOrder(l, keys) ==
    \A i, j \in 1..Len(l) :
        (i < j /\ l[i].score = l[j].score
              /\ InKeys(keys, l[i].filename) /\ InKeys(keys, l[j].filename))
            => KeyPos(keys, l[i].filename) <= KeyPos(keys, l[j].filename)

\* exactly one rating for each key, and no other rating
OneRatingPerKey(l, keys) ==
    /\ Len(l) = Len(keys)
    /\ \A k \in 1..Len(keys) :
          Cardinality({i \in 1..Len(l) : l[i].filename = keys[k]}) = 1

\* the list line 479 hands to the results callback
Ranked == lists[cv_ratings].items

\* line 473 is taken: the pass hands over (None, [])
HandsOverNothing(p) ==
    RunMatchingCheck(p) /\ Len(after_queue') > Len(after_queue)

ScoringFailed == rate_cv_suitability(<<>>, <<>>, Outcome("raise", <<>>))
IsScoringError(r) == r.score = 0 /\ r.justification = ScoringFailed.justification
IsSkipRating(r) == r.score = 0 /\ r.justification = SkipJustification

JobParseFailed(s) ==
    \/ s = parse_job_advertisement(<<>>, Outcome("raise", <<>>))
    \/ s = parse_job_advertisement(<<>>, Outcome("none", <<>>))

CvParseFailed(s) ==
    \/ s = parse_cv_skills_and_experience(<<>>, Outcome("raise", <<>>))
    \/ s = parse_cv_skills_and_experience(<<>>, Outcome("none", <<>>))

ResultsPosted == {k \in 1..Len(after_queue) : after_queue[k].cb = "results"}

\* ------------------------------------------------------------------ C1
\* C1: the ranked list a matching pass hands to its callback is ordered by
\* non-increasing score, and ratings of equal score stand in the iteration
\* order of the candidate mapping the pass went over.
C1_RankedSortedStable ==
    [][\A p \in 1..Len(passes) :
          RunMatchingPost(p) =>
              SortedDesc(Ranked) /\ TiesInKeyOrder(Ranked, passes[p].keys)]_vars

\* ------------------------------------------------------------------ C2
\* C2: whenever the ranked list a pass hands over is non-empty the reported top
\* candidate is its first element, and top is none only when the list is empty.
C2_TopIsFirstOfRanked ==
    [][\A p \in 1..Len(passes) :
          RunMatchingPost(p) =>
              /\ Ranked # <<>> => passes[p].most_suitable_cv_info = Ranked[1]
              /\ passes[p].most_suitable_cv_info = NoRating => Ranked = <<>>]_vars

\* ------------------------------------------------------------------ C3
\* C3: the result a pass hands to its callback holds exactly one rating for
\* each candidate id of the mapping the pass went over, and no other rating.
C3_OneRatingPerCandidate ==
    [][\A p \in 1..Len(passes) :
          /\ RunMatchingPost(p) => OneRatingPerKey(Ranked, passes[p].keys)
          /\ HandsOverNothing(p) => passes[p].keys = <<>>]_vars

\* ------------------------------------------------------------------ C4
\* C4: a CV whose ingestion gave no text has an entry in the candidate mapping
\* of its batch (one entry per file, in file order); the matching pass gives it
\* score 0 with the skip justification in a step that is no scoring call, and
\* goes on with the candidates that remain.
C4_FailedCandidateSkipped ==
    [][/\ \A t \in 1..Len(uploads) :
             \A outs \in [1..Len(uploads[t].files) -> CvOutcomes] :
                 CvProcessed(t, outs) =>
                     LET data == after_queue'[Len(after_queue')].data
                     IN  /\ Len(data) = Len(uploads[t].files)
                         /\ \A k \in 1..Len(data) :
                               /\ data[k].filename = uploads[t].files[k]
                               /\ Strip(outs[k][1]) = <<>> =>
                                      data[k].parsed_info = NoTextParsed
       /\ \A p \in 1..Len(passes) :
             (/\ passes[p].pc = "loop"
              /\ passes[p].todo # <<>>
              /\ Head(passes[p].todo).parsed_info = NoTextParsed
              /\ RunMatchingSkip(p) \/ RunMatchingRate(p))
                 => /\ ~RunMatchingRate(p)
                    /\ lists'[cv_ratings].items =
                          Append(lists[cv_ratings].items,
                                 Rating(Head(passes[p].todo).filename, 0, SkipJustification))
                    /\ passes' = [passes EXCEPT ![p].todo = Tail(@)]]_vars

\* a list holds the skip rating of one candidate and the score of another
C4_Witness ==
    \E l \in DOMAIN lists :
        \E i, j \in 1..Len(lists[l].items) :
            /\ IsSkipRating(lists[l].items[i])
            /\ lists[l].items[j].score > 0
            /\ lists[l].items[i].filename # lists[l].items[j].filename

\* ------------------------------------------------------------------ C5
\* C5: when the scoring call fails for a candidate, that candidate gets score 0
\* with the error description as justification, the ratings collected so far
\* stay as they are, and the pass goes on with the same remaining candidates as
\* after a call that did not fail.
C5_ScoringFailureIsolated ==
    [][\A p \in 1..Len(passes) :
          \A out \in ScoringOutcomes :
              RateCandidate(p, out) =>
                  /\ Len(passes') = Len(passes)
                  /\ passes'[p].pc = "loop"
                  /\ passes'[p].todo = Tail(passes[p].todo)
                  /\ Len(lists'[cv_ratings].items) = Len(lists[cv_ratings].items) + 1
                  /\ SubSeq(lists'[cv_ratings].items, 1, Len(lists[cv_ratings].items))
                        = lists[cv_ratings].items
                  /\ out.kind = "raise" =>
                        lists'[cv_ratings].items[Len(lists'[cv_ratings].items)]
                            = Rating(Head(passes[p].todo).filename, 0,
                                     <<"Error rating CV: ", ErrorText>>)]_vars

\* after a failed scoring call a later candidate has been scored
C5_Witness ==
    \E l \in DOMAIN lists :
        \E i, j \in 1..Len(lists[l].items) :
            /\ i < j
            /\ IsScoringError(lists[l].items[i])
            /\ lists[l].items[j].score > 0

\* ------------------------------------------------------------------ C6
\* text[i..k] reads PERCENTAGE:, whitespace up to j, digits up to k, then %
PercentageAt(text, i, j, k) ==
    /\ i < j /\ j < k /\ k <= Len(text)
    /\ text[i] = "P"
    /\ \A m \in (i + 1)..(j - 1) : text[m] \in Whitespace
    /\ \A m \in j..(k - 1) : text[m] \in Digits
    /\ text[k] = "%"

HasPercentage(text) ==
    \E i, j, k \in 1..Len(text) : PercentageAt(text, i, j, k)

RECURSIVE Decimal(_, _)
Decimal(ds, acc) ==
    IF ds = <<>> THEN acc ELSE Decimal(Tail(ds), 10 * acc + DigitVal(Head(ds)))

\* the number n of the leftmost PERCENTAGE: <n>% of the text
FirstPercentage(text) ==
    LET i == CHOOSE i \in 1..Len(text) :
                 /\ \E j, k \in 1..Len(text) : PercentageAt(text, i, j, k)
                 /\ \A h \in 1..(i - 1) :
                        ~\E j, k \in 1..Len(text) : PercentageAt(text, h, j, k)
        jk == CHOOSE jk \in (1..Len(text)) \X (1..Len(text)) :
                 PercentageAt(text, i, jk[1], jk[2])
    IN  Decimal(SubSeq(text, jk[1], jk[2] - 1), 0)

JobProfileExtracted ==
    job_ad_parsed_info # <<>> /\ ~JobParseFailed(job_ad_parsed_info)

\* C7: a matching pass starts only in a state where the job profile is
\* Extracted and the candidate set is non-empty.
C7_MatchingNeedsExtractedJob ==
    [][passes_started' > passes_started =>
          JobProfileExtracted /\ cv_data # <<>>]_vars

\* ------------------------------------------------------------------ C8
\* C8: a candidate whose profile-extraction call failed is treated by the
\* matching pass as not Extracted: it is skipped, not scored.
C8_FailedProfileSkipped ==
    \A p \in 1..Len(passes) :
        (/\ passes[p].pc = "loop"
         /\ passes[p].todo # <<>>
         /\ CvParseFailed(Head(passes[p].todo).parsed_info))
            => IsSkipped(Head(passes[p].todo))

\* ------------------------------------------------------------------ C9
\* C9: at most one matching pass is in flight (started, its results callback
\* not yet run).
C9_OnePassInFlight ==
    Len(passes) + Cardinality(ResultsPosted) <= 1

\* ------------------------------------------------------------------ C10
\* uploads of a role in flight: workers running, and completions not yet run
UploadsInFlight(role) ==
    Cardinality({t \in 1..Len(uploads) : uploads[t].role = role})
        + Cardinality({k \in 1..Len(after_queue) :
              after_queue[k].cb \in
                  (IF role = "job" THEN {"job_ok", "job_error"} ELSE {"cv_done"})})

\* C10: for each role at most one upload is in flight.
C10_OneUploadPerRole ==
    \A role \in {"job", "cv"} : UploadsInFlight(role) <= 1

\* ------------------------------------------------------------------ C11
\* a step of a worker thread: of an upload worker or of a matching worker
WorkerStep ==
    \/ \E t \in 1..Len(uploads) :
          RunJobAdProcessing(t) \/ RunJobAdParsing(t) \/ RunCvProcessing(t)
    \/ \E p \in 1..Len(passes) :
          \/ RunMatchingInit(p) \/ RunMatchingItems(p) \/ RunMatchingSkip(p)
          \/ RunMatchingRate(p) \/ RunMatchingCheck(p) \/ RunMatchingSortBegin(p)
          \/ RunMatchingSortEnd(p) \/ RunMatchingPost(p)

\* C11: no step of a worker thread writes the job raw text, the job profile,
\* the candidate mapping or the ratings list; a worker changes shared state only
\* by posting its completion callback.
C11_WorkersWriteNoSharedState ==
    [][WorkerStep =>
          /\ UNCHANGED <<job_ad_text_raw, job_ad_parsed_info, cv_data, cv_ratings>>
          /\ lists'[cv_ratings].items = lists[cv_ratings].items]_vars

\* ------------------------------------------------------------------ C12
\* the results area shows the outcome of a matching pass
ShowsMatchResults ==
    most_suitable_cv_text.kind = "rating" \/ other_cvs_listbox # <<>>

\* C12: selecting a file in the job-ad slot discards the job profile, and from
\* that step on the results area shows no top candidate and no ranked list.
C12_NewJobAdInvalidatesResults ==
    [][\A f \in JobFiles :
          UploadJobAdFile(f) =>
              /\ job_ad_parsed_info' = <<>>
              /\ ~ShowsMatchResults']_vars

\* ------------------------------------------------------------------ C13
FileNamesOf(data) == [k \in 1..Len(data) |-> data[k].filename]

\* C13: selecting a CV batch empties the candidate mapping, a batch worker hands
\* back one entry per file of its batch and no other, and its completion
\* callback makes the candidate mapping exactly what was handed back.
C13_BatchReplacesCandidates ==
    [][/\ \A b \in Batches : UploadCvFiles(b) => cv_data' = <<>>
       /\ \A t \in 1..Len(uploads) :
             RunCvProcessing(t) =>
                 FileNamesOf(after_queue'[Len(after_queue')].data) = uploads[t].files
       /\ (RunCallback /\ Head(after_queue).cb = "cv_done") =>
             cv_data' = Head(after_queue).data]_vars

\* a pass goes over the candidates of an earlier batch (b.pdf among them), and
\* the completion of a later batch has left the mapping without b.pdf
C13_Witness ==
    /\ cv_data # <<>>
    /\ ~InKeys(FileNamesOf(cv_data), "b.pdf")
    /\ \E p \in 1..Len(passes) : InKeys(passes[p].keys, "b.pdf")

\* ------------------------------------------------------------------ C18
LastPosted(queue) == queue[Len(queue)].cb

\* C18: a worker thread hands its result back: the step that ends an upload
\* worker posts the callback of its role, and the step that ends a matching
\* worker posts the results callback (a thread that has ended posts nothing
\* later, so a worker ending otherwise never hands back).
C18_WorkEndsInCallback ==
    [][/\ \A t \in 1..Len(uploads) :
             uploads' = RemoveAt(uploads, t) /\ Len(uploads') < Len(uploads) =>
                 /\ Len(after_queue') = Len(after_queue) + 1
                 /\ LastPosted(after_queue') \in
                        (IF uploads[t].role = "job" THEN {"job_ok", "job_error"}
                         ELSE {"cv_done"})
       /\ Len(passes') < Len(passes) =>
             /\ Len(after_queue') = Len(after_queue) + 1
             /\ LastPosted(after_queue') = "results"]_vars

\* ------------------------------------------------------------------ C20
\* C20: the top candidate a pass hands over is no skip rating, its score is at
\* least the score of every rating of the ranked list handed over with it, and
\* of the scored ratings with that score it is the first in the iteration
\* order of the mapping the pass went over.
C20_TopIsFirstMaxScored ==
    [][\A p \in 1..Len(passes) :
          (RunMatchingPost(p) /\ passes[p].most_suitable_cv_info # NoRating) =>
              LET top == passes[p].most_suitable_cv_info
                  keys == passes[p].keys
              IN  /\ ~IsSkipRating(top)
                  /\ \A i \in 1..Len(Ranked) :
                        /\ top.score >= Ranked[i].score
                        /\ (/\ Ranked[i].score = top.score
                            /\ ~IsSkipRating(Ranked[i])
                            /\ InKeys(keys, Ranked[i].filename))
                              => KeyPos(keys, top.filename)
                                    <= KeyPos(keys, Ranked[i].filename)]_vars

\* ------------------------------------------------------------------ C19
\* a step of the input-handling thread: a user-action handler or a callback
MainThreadStep ==
    \/ \E f \in JobFiles \cup {""} : UploadJobAdFile(f)
    \/ \E b \in Batches \cup {<<>>} : UploadCvFiles(b)
    \/ StartMatchingThread
    \/ RunCallback

\* what the callback at the head of the queue carries
HandedBack(field) ==
    IF after_queue = <<>> THEN {} ELSE {Head(after_queue)[field]}

\* C19: no step of the input-handling thread runs a pipeline operation: it
\* produces no document text, no profile and no rating of its own and posts no
\* result; what it writes is empty, what was there, or what the callback it
\* runs was handed by a worker.
C19_NoPipelineOnMainThread ==
    [][MainThreadStep =>
          /\ job_ad_text_raw' \in {job_ad_text_raw, <<>>}
          /\ job_ad_parsed_info' \in {job_ad_parsed_info, <<>>} \cup HandedBack("parsed")
          /\ cv_data' \in {cv_data, <<>>} \cup HandedBack("data")
          /\ cv_ratings' = cv_ratings
          /\ lists'[cv_ratings].items = lists[cv_ratings].items
          /\ \/ after_queue' = after_queue
             \/ after_queue # <<>> /\ after_queue' = Tail(after_queue)
          /\ most_suitable_cv_text'.rating \in
                {most_suitable_cv_text.rating, NoRating} \cup HandedBack("top")]_vars

\* every stage of the pipeline has run: a candidate that was scored is on
\* display as the most suitable one
C19_Witness ==
    /\ most_suitable_cv_text.kind = "rating"
    /\ most_suitable_cv_text.rating.score > 0

\* ------------------------------------------------------------------ C14
\* the page texts the text-extraction calls made for a file returned, in call
\* order, and the number of page images the file gave (-1: not opened yet)
PageTexts(calls, file) ==
    LET made == SelectSeq(calls, LAMBDA c : c.file = file /\ c.op = "text")
    IN  [k \in 1..Len(made) |-> made[k].text]

PagesOf(calls, file) ==
    LET opened == SelectSeq(calls,
                      LAMBDA c : c.file = file /\ c.op \in {"rasterize", "read"})
    IN  IF opened = <<>> THEN -1 ELSE opened[1].pages

\* text.split("\n\n")
RECURSIVE Segments(_)
Segments(text) ==
    LET at == {i \in 1..(Len(text) - 1) : text[i] = "\n" /\ text[i + 1] = "\n"}
    IN  IF at = {} THEN <<text>>
        ELSE LET i == CHOOSE i \in at : \A j \in at : i <= j
             IN  <<SubSeq(text, 1, i - 1)>> \o Segments(SubSeq(text, i + 2, Len(text)))

\* C14: the text of a document with N >= 1 pages is the N page texts joined by
\* the blank-line separator in page order: it has N segments, and segment k is
\* what the text-extraction call for page k returned, empty when that call
\* returned nothing or failed.
C14_RawTextJoinsPages ==
    (ingest.stage \in {"text", "profile"} /\ PagesOf(ingest.calls, ingest.file) >= 1) =>
        LET texts == PageTexts(ingest.calls, ingest.file)
        IN  /\ Len(texts) = PagesOf(ingest.calls, ingest.file)
            /\ ingest.full_text = JoinPages(texts)
            /\ Segments(ingest.full_text) = texts

\* a document of two pages, the first without text
C14_Witness ==
    /\ ingest.stage = "text"
    /\ PageTexts(ingest.calls, ingest.file) = <<<<>>, <<"x">>>>
    /\ ingest.full_text = <<"\n", "\n", "x">>

\* ------------------------------------------------------------------ C15
\* the calls made so far for the current file are: the file opened with N >= 1
\* page images, then the text of pages 1..n in this order
OpenedThenPages(calls, file, n) ==
    LET mine == SelectSeq(calls, LAMBDA c : c.file = file)
    IN  /\ Len(mine) = n + 1
        /\ mine[1].op \in {"rasterize", "read"}
        /\ mine[1].pages >= 1
        /\ n <= mine[1].pages
        /\ \A k \in 1..n : mine[k + 1].op = "text" /\ mine[k + 1].page = k

\* C15: within one document the stages run in order: the text of page k + 1 is
\* extracted after that of pages 1..k and after the document was opened, and
\* the profile call is made only after the text of every page was extracted,
\* and only for a document that gave page images and whose text is not blank.
C15_StagesInOrder ==
    [][/\ IngestExtractPage =>
             /\ OpenedThenPages(ingest.calls, ingest.file, Len(ingest.all_text_pages))
             /\ Len(ingest.all_text_pages) < PagesOf(ingest.calls, ingest.file)
       /\ IngestProfile =>
             /\ OpenedThenPages(ingest.calls, ingest.file,
                                PagesOf(ingest.calls, ingest.file))
             /\ Strip(JoinPages(PageTexts(ingest.calls, ingest.file))) # <<>>]_vars

\* the profile call of a two-page document has been made
C15_Witness ==
    \E j \in 2..Len(ingest.calls) :
        /\ ingest.calls[j].op = "profile"
        /\ ingest.calls[j - 1].op = "text"
        /\ ingest.calls[j - 1].page = 2

\* ------------------------------------------------------------------ C16
\* the document gave no text: it could not be converted or read, or its pages
\* are blank
FailedIngestion(calls, file) ==
    \/ PagesOf(calls, file) = 0
    \/ Strip(JoinPages(PageTexts(calls, file))) = <<>>

\* C16: a CV batch worker hands back one entry per file of the batch, in input
\* order; it has opened every file, in input order; a file that failed
\* ingestion has the entry of a document without text, and every other file has
\* its own text in its entry.
C16_BadFileDoesNotStopBatch ==
    [][IngestHandBack =>
          LET data == after_queue'[Len(after_queue')].data
              files == uploads[1].files
              calls == ingest.calls
          IN  /\ FileNamesOf(data) = files
              /\ \A i, j \in 1..Len(calls) : i < j => calls[i].file <= calls[j].file
              /\ \A k \in 1..Len(files) :
                    /\ PagesOf(calls, k) >= 0
                    /\ IF FailedIngestion(calls, k)
                       THEN data[k] = NoTextEntry(files[k])
                       ELSE data[k].text_raw = JoinPages(PageTexts(calls, k))
                    /\ \E out \in CvParseOutcomes :
                          data[k] = CvEntry(files[k], JoinPages(PageTexts(calls, k)), out)]_vars

\* a batch whose first file failed ingestion and whose second file has a profile
C16_Witness ==
    \E k \in 1..Len(after_queue) :
        /\ after_queue[k].cb = "cv_done"
        /\ Len(after_queue[k].data) = 2
        /\ after_queue[k].data[1] = NoTextEntry(after_queue[k].data[1].filename)
        /\ after_queue[k].data[2].parsed_info = <<"Skills: Python">>

\* ------------------------------------------------------------------ C17
\* C17: matching passes run one after the other over the same job profile and
\* the same candidate mapping, with the same reply for each candidate, hand
\* over the same top candidate and the same ranked sequence.
C17_RepeatedPassSameResult ==
    \A i, j \in 1..Len(delivered) : delivered[i] = delivered[j]

\* two passes have handed over their results: two candidates, the second one
\* of the mapping ranked first and reported as top
C17_Witness ==
    /\ Len(delivered) = 2
    /\ Len(delivered[2].ranked) = 2
    /\ delivered[2].ranked[1].filename = "b.pdf"
    /\ delivered[2].ranked[2].score > 0
    /\ delivered[2].top = delivered[2].ranked[1]

\* ------------------------------------------------------------------ C21
\* the candidate ids of the ratings on display
DisplayedIds ==
    {other_cvs_listbox[k].filename : k \in 1..Len(other_cvs_listbox)}
        \cup (IF most_suitable_cv_text.kind = "rating"
              THEN {most_suitable_cv_text.rating.filename} ELSE {})

NoPassInFlight == passes = <<>> /\ ResultsPosted = {}

\* C21: when match results are on display and no pass is in flight, the
\* candidate ids on display are exactly the keys of the candidate mapping, and
\* there is a job profile (a pass is scored against the profile that let it
\* start, so results on display while the session has no profile were not
\* scored against the current one).
C21_ResultsMatchSession ==
    (ShowsMatchResults /\ NoPassInFlight) =>
        /\ DisplayedIds = {cv_data[k].filename : k \in 1..Len(cv_data)}
        /\ job_ad_parsed_info # <<>>

\* ------------------------------------------------------------------ C22
\* C22: dismissing the job-ad dialog clears the job profile and the results on
\* display and leaves the candidate mapping and the match button as they are;
\* no pass starts while the session has no job profile; and a session without
\* job profile (as it is after the dismissal) gets one only from a job ad that
\* was processed successfully.
C22_DismissedJobDialogBlocksMatching ==
    [][/\ UploadJobAdFile("") =>
             /\ job_ad_parsed_info' = <<>>
             /\ ~ShowsMatchResults'
             /\ most_suitable_cv_text' = Placeholder
             /\ UNCHANGED <<cv_data, match_cvs_button>>
       /\ passes_started' > passes_started => job_ad_parsed_info # <<>>
       /\ (job_ad_parsed_info = <<>> /\ job_ad_parsed_info' # <<>>) =>
             JobProfileExtracted']_vars

====
